---- MODULE Spec2Model ----
(***************************************************************************)
(* Persistent, JSON-serialized sessions (httpie/sessions.py).              *)
(*                                                                         *)
(* The model covers the on-disk session store (one directory per host,     *)
(* one JSON file per session), get_response's load / merge / request /     *)
(* save protocol and the session management commands.  Names are           *)
(* sequences of one-character strings, so that the ':' -> '_' substitution *)
(* of Host.path and the '_digits' -> ':digits' substitution of Host.all    *)
(* are computed as the code computes them.                                 *)
(***************************************************************************)
EXTENDS Integers, Sequences, FiniteSets, TLC

(***************************************************************************)
(* Bounds of the model.                                                    *)
(***************************************************************************)
\* Longest name enumerated by the name specification.
MaxNameLen == 3
\* Most directories the name specification lets exist at once.
MaxDirs == 1
\* Most cookies in a jar returned by the HTTP client.
MaxJar == 2

(***************************************************************************)
(* Characters and names.                                                   *)
(***************************************************************************)
None == "None"

Lower ==
    {"a", "b", "c", "d", "e", "f", "g", "h", "i", "j", "k", "l", "m",
     "n", "o", "p", "q", "r", "s", "t", "u", "v", "w", "x", "y", "z"}

Upper ==
    {"A", "B", "C", "D", "E", "F", "G", "H", "I", "J", "K", "L", "M",
     "N", "O", "P", "Q", "R", "S", "T", "U", "V", "W", "X", "Y", "Z"}

Letters == Lower \cup Upper

Digits == {"0", "1", "2", "3", "4", "5", "6", "7", "8", "9"}

\* The characters names are enumerated over: a letter, a digit, the dot and
\* the two characters the substitutions are about.  All are valid in a host
\* name.
Alphabet == {"a", "1", "_", ":", "."}

\* The characters of the model in the order of their code points, which is
\* the order sorted() compares them in.
CodeOrder ==
    <<"-", ".", "/", "0", "1", "2", "3", "4", "5", "6", "7", "8", "9",
      ":", "@", "A", "B", "C", "D", "E", "F", "G", "H", "I", "J", "K",
      "L", "M", "N", "O", "P", "Q", "R", "S", "T", "U", "V", "W", "X",
      "Y", "Z", "_", "a", "b", "c", "d", "e", "f", "g", "h", "i", "j",
      "k", "l", "m", "n", "o", "p", "q", "r", "s", "t", "u", "v", "w",
      "x", "y", "z">>

CharCode(c) == CHOOSE i \in 1..Len(CodeOrder) : CodeOrder[i] = c

\* re.compile('^[a-zA-Z0-9_.:-]+$').match(name)
HostChars == Letters \cup Digits \cup {"_", ".", ":", "-"}

\* re.compile('^[a-zA-Z0-9_.-]+$').match(name)
SessionChars == Letters \cup Digits \cup {"_", ".", "-"}

\* '^[set]+$': one or more characters of the set; '$' also matches just
\* before a final newline.
MatchesPattern(chars, name) ==
    LET n == IF Len(name) > 0 /\ name[Len(name)] = "\n"
             THEN Len(name) - 1 ELSE Len(name)
    IN  /\ n >= 1
        /\ \A i \in 1..n : name[i] \in chars

HostNameValid(name) == MatchesPattern(HostChars, name)

SessionNameValid(name) == MatchesPattern(SessionChars, name)

\* name.replace(':', '_')
ReplaceColon(name) ==
    [i \in 1..Len(name) |-> IF name[i] = ":" THEN "_" ELSE name[i]]

\* re.sub(r'_(\d+)$', r':\1', name): the '_' that is followed by digits only,
\* up to the end of the name, becomes ':'.
IsPortSuffixAt(name, i) ==
    /\ name[i] = "_"
    /\ i < Len(name)
    /\ \A j \in (i + 1)..Len(name) : name[j] \in Digits

RealName(name) ==
    [i \in 1..Len(name) |->
        IF IsPortSuffixAt(name, i) THEN ":" ELSE name[i]]

\* netloc.split('@')[-1]
AfterLastAt(netloc) ==
    LET ats == {i \in 1..Len(netloc) : netloc[i] = "@"}
        from == IF ats = {} THEN 1
                ELSE (CHOOSE i \in ats : \A j \in ats : j <= i) + 1
    IN  SubSeq(netloc, from, Len(netloc))

\* Lexicographic order of names by code point, as sorted() orders str.
RECURSIVE NameLess(_, _)
NameLess(x, y) ==
    IF y = <<>> THEN FALSE
    ELSE IF x = <<>> THEN TRUE
    ELSE IF CharCode(Head(x)) # CharCode(Head(y))
         THEN CharCode(Head(x)) < CharCode(Head(y))
    ELSE NameLess(Tail(x), Tail(y))

RECURSIVE Sorted(_)
Sorted(S) ==
    IF S = {} THEN <<>>
    ELSE LET m == CHOOSE x \in S : \A y \in S \ {x} : NameLess(x, y)
         IN  <<m>> \o Sorted(S \ {m})

(***************************************************************************)
(* The session record and its codecs.                                      *)
(***************************************************************************)
EmptyMap == [k \in {} |-> None]

DictUpdateRequestOnly(s, r) == r

DictUpdateKeepingOld(s, r) ==
    [k \in DOMAIN s \cup DOMAIN r |-> IF k \in DOMAIN s THEN s[k] ELSE r[k]]

\* dict.update: the keys of r carry r's values, the other keys of s stay.
DictUpdate(s, r) ==
    [k \in DOMAIN s \cup DOMAIN r |-> IF k \in DOMAIN r THEN r[k] ELSE s[k]]

\* Session.__init__: the three top-level keys and their defaults.
NoAuthRecord == [type |-> None, username |-> None, password |-> None]

SessionDefaultsEmptyType ==
    [headers |-> EmptyMap, cookies |-> EmptyMap,
     auth |-> [NoAuthRecord EXCEPT !.type = ""]]

SessionDefaults ==
    [headers |-> EmptyMap, cookies |-> EmptyMap, auth |-> NoAuthRecord]

\* A credential object: its class, username and password.  NoCred is Python's
\* None, the absence of a credential.
NoCred == [kind |-> None, username |-> None, password |-> None]

\* Session.auth, setter: the class of the credential selects the stored type.
AuthTypeOfKind ==
    [k \in {"HTTPBasicAuth", "HTTPDigestAuth"} |->
        IF k = "HTTPBasicAuth" THEN "basic" ELSE "digest"]

AuthSetterRaises(cred) == cred.kind \notin DOMAIN AuthTypeOfKind

AuthSetter(cred) ==
    [type |-> AuthTypeOfKind[cred.kind],
     username |-> cred.username,
     password |-> cred.password]

\* Session.auth, getter: no credential for a missing or empty type, KeyError
\* for a type that is neither basic nor digest.
AuthKindOfType ==
    [t \in {"basic", "digest"} |->
        IF t = "basic" THEN "HTTPBasicAuth" ELSE "HTTPDigestAuth"]

AuthIsFalsyNoneOnly(auth) == auth.type = None

\* Line 169: not auth['type'].
AuthIsFalsy(auth) == auth.type \in {None, ""}

AuthGetterRaises(auth) ==
    ~AuthIsFalsy(auth) /\ auth.type \notin DOMAIN AuthKindOfType

AuthGetterAlwaysBasic(auth) ==
    IF AuthIsFalsy(auth) THEN NoCred
    ELSE [kind |-> "HTTPBasicAuth",
          username |-> auth.username,
          password |-> auth.password]

AuthGetter(auth) ==
    IF AuthIsFalsy(auth) THEN NoCred
    ELSE [kind |-> AuthKindOfType[auth.type],
          username |-> auth.username,
          password |-> auth.password]

\* A cookie of a jar: the attributes the model follows.  expires is None (a
\* session cookie), "past" or "future", relative to the time of the call.
CookieAttrs == {"value", "domain", "path", "expires"}

\* Session.cookies, setter: cookie.__dict__ without the excluded keys; 'name'
\* is excluded, the name is the key of the entry.
CookieDict(c) == [k \in CookieAttrs |-> c[k]]

JarNames(jar) == {c.name : c \in jar}

\* Session.cookies, setter: one entry per cookie name.  The entry of a name
\* is written once per cookie of that name, in the iteration order of the
\* jar's nested dictionaries, and the last one written stays: for a name held
\* by several cookies, any of them, depending on that order.
CookiesSetter(jar) ==
    {m \in [JarNames(jar) -> {CookieDict(c) : c \in jar}] :
        \A n \in JarNames(jar) :
            \E c \in jar : c.name = n /\ m[n] = CookieDict(c)}

\* create_cookie(name, value, **cookie_dict): attributes that are not given
\* take their defaults.
CreateCookie(name, value, rest) ==
    [name |-> name,
     value |-> value,
     domain |-> IF "domain" \in DOMAIN rest THEN rest["domain"] ELSE "",
     path |-> IF "path" \in DOMAIN rest THEN rest["path"] ELSE "/",
     expires |-> IF "expires" \in DOMAIN rest THEN rest["expires"] ELSE None]

\* dict.pop(key): the dictionary without the key.
DictPop(d, key) == [k \in DOMAIN d \ {key} |-> d[k]]

\* cookie_dict.pop('value') raises KeyError for an entry without 'value'.
CookiesGetterRaises(cookies) ==
    \E n \in DOMAIN cookies : "value" \notin DOMAIN cookies[n]

\* jar.clear_expired_cookies()
IsExpired(c) == c.expires = "past"

ClearExpired(jar) == {c \in jar : ~IsExpired(c)}

CookiesGetterKeepingExpired(cookies) ==
    {CreateCookie(n, cookies[n]["value"], DictPop(cookies[n], "value")) :
        n \in DOMAIN cookies}

\* Session.cookies, getter: the jar built from the stored entries, expired
\* cookies removed.
CookiesGetter(cookies) ==
    ClearExpired({CreateCookie(n, cookies[n]["value"],
                               DictPop(cookies[n], "value")) :
                  n \in DOMAIN cookies})

\* The stored entries after the getter ran: pop() removed each 'value'.
CookiesAfterGetter(cookies) ==
    [n \in DOMAIN cookies |-> DictPop(cookies[n], "value")]

(***************************************************************************)
(* The session store: a map from the directories under the sessions root   *)
(* to their files, each file holding a session record.                     *)
(***************************************************************************)
\* os.makedirs(path, mode=0o700), EEXIST ignored.
MakeDirs(f, dir) ==
    IF dir \in DOMAIN f THEN f
    ELSE [d \in DOMAIN f \cup {dir} |-> IF d = dir THEN EmptyMap ELSE f[d]]

\* Host.path: the directory of the host, created on access.  HostDir is the
\* directory's name, HostPath the store after the access.
HostDir(host) == ReplaceColon(host)

HostPath(f, host) == MakeDirs(f, HostDir(host))

\* shutil.rmtree(self.path)
HostDelete(f, host) ==
    LET g == HostPath(f, host)
    IN  [d \in DOMAIN g \ {HostDir(host)} |-> g[d]]

\* BaseConfigDict.path: host.directory / name + '.json'; reading it accesses
\* the directory.
JsonExt == <<".", "j", "s", "o", "n">>

FileName(name) == name \o JsonExt

FileExists(f, host, name) ==
    /\ HostDir(host) \in DOMAIN f
    /\ FileName(name) \in DOMAIN f[HostDir(host)]

FileContent(f, host, name) == f[HostDir(host)][FileName(name)]

\* BaseConfigDict.load: the stored keys replace the defaults; no file, the
\* defaults stand.
SessionLoad(f, host, name) ==
    IF FileExists(f, host, name)
    THEN [headers |-> FileContent(f, host, name).headers,
          cookies |-> FileContent(f, host, name).cookies,
          auth |-> FileContent(f, host, name).auth]
    ELSE SessionDefaults

\* BaseConfigDict.save: the record is written to the session's path.
SessionSave(f, host, name, data) ==
    LET g == HostPath(f, host)
        dir == HostDir(host)
    IN  [g EXCEPT ![dir] =
            [fn \in DOMAIN g[dir] \cup {FileName(name)} |->
                IF fn = FileName(name) THEN data ELSE g[dir][fn]]]

\* glob.glob1(dirname, '*.json'): the entries that end in '.json'; an entry
\* whose name starts with '.' is hidden and is not matched.
EndsWithJson(fn) ==
    /\ Len(fn) >= Len(JsonExt)
    /\ SubSeq(fn, Len(fn) - Len(JsonExt) + 1, Len(fn)) = JsonExt

IsHidden(fn) == Len(fn) > 0 /\ fn[1] = "."

GlobJson(files) == {fn \in files : EndsWithJson(fn) /\ ~IsHidden(fn)}

\* os.path.splitext(fn)[0]: the name up to its last dot, unless only dots
\* precede that dot.
SplitExtRoot(fn) ==
    LET dots == {i \in 1..Len(fn) : fn[i] = "."}
        last == IF dots = {} THEN 0
                ELSE CHOOSE i \in dots : \A j \in dots : j <= i
    IN  IF last > 0 /\ \E j \in 1..(last - 1) : fn[j] # "."
        THEN SubSeq(fn, 1, last - 1)
        ELSE fn

\* Host.__iter__: the session names of the host, in the order of the sorted
\* file names.
HostIter(f, host) ==
    LET g == HostPath(f, host)
        fns == Sorted(GlobJson(DOMAIN g[HostDir(host)]))
    IN  [i \in 1..Len(fns) |-> SplitExtRoot(fns[i])]

\* Host.all: the directories of the root that glob '*' matches, sorted, each
\* named by RealName.
HostAll(f) ==
    LET dirs == Sorted({d \in DOMAIN f : ~IsHidden(d)})
    IN  [i \in 1..Len(dirs) |-> RealName(dirs[i])]

(***************************************************************************)
(* State.                                                                  *)
(*   fs    the session store on disk                                       *)
(*   proc  per process: the call it is in or has last completed.  A call   *)
(*         of get_response waits in pc = "request" while the HTTP client   *)
(*         runs; every other operation runs to completion in one step.     *)
(*         A process that holds a Session object and works on it through   *)
(*         its views is in pc = "open".                                    *)
(*         pre is the store as it was when the call started, loaded the    *)
(*         session record as load() and the assignments to its views left  *)
(*         it (reads do not enter it), editor the editor command of        *)
(*         command_session_edit and atEditor the store as it was when the  *)
(*         editor was started.                                             *)
(*   savedUnder  for each session file, the host name of the call that     *)
(*         last wrote it (a history of the store, not a part of it)        *)
(*   savedBy  for each session file, the process that last wrote it (a     *)
(*         history as well)                                                *)
(***************************************************************************)
VARIABLES fs, proc, savedUnder, savedBy

vars == <<fs, proc, savedUnder, savedBy>>

Procs == {1, 2}

IdleProc ==
    [pc |-> "idle", op |-> "none", host |-> <<>>, name |-> <<>>,
     readOnly |-> FALSE, reqHeaders |-> EmptyMap, reqAuth |-> NoCred,
     session |-> SessionDefaults, isNew |-> FALSE,
     sentHeaders |-> EmptyMap, sentAuth |-> NoCred, sentCookies |-> {},
     calls |-> 0, jar |-> {}, raised |-> None, saved |-> FALSE,
     exc |-> None, pre |-> EmptyMap, preSaved |-> EmptyMap, out |-> <<>>,
     loaded |-> SessionDefaults, editor |-> <<>>, atEditor |-> EmptyMap]

Init ==
    /\ fs = EmptyMap
    /\ savedUnder = EmptyMap
    /\ savedBy = EmptyMap
    /\ proc = [p \in Procs |-> IdleProc]

(***************************************************************************)
(* The history of the store: the files of the store after a step, each     *)
(* with the host name of the call that wrote it in this step and with that *)
(* call's process, or else with the host name and the process it had.      *)
(***************************************************************************)
FilesOf(f) == UNION {{<<d, fn>> : fn \in DOMAIN f[d]} : d \in DOMAIN f}

FileOf(c) == <<HostDir(c.host), FileName(c.name)>>

Track(p) ==
    /\ savedUnder' =
           [k \in FilesOf(fs') |->
               IF proc'[p].saved /\ k = FileOf(proc'[p])
               THEN proc'[p].host
               ELSE savedUnder[k]]
    /\ savedBy' =
           [k \in FilesOf(fs') |->
               IF proc'[p].saved /\ k = FileOf(proc'[p])
               THEN p
               ELSE savedBy[k]]

(***************************************************************************)
(* get_response(name, request_kwargs, config_dir, read_only)               *)
(***************************************************************************)
\* request_kwargs['headers'].get('Host', None)
\*     or urlparse(request_kwargs['url']).netloc.split('@')[-1]
ResolveHost(headers, netloc) ==
    IF "Host" \in DOMAIN headers /\ headers["Host"] # <<>>
    THEN headers["Host"]
    ELSE AfterLastAt(netloc)

\* Lines 46-50: explicit credentials are stored in the session and used;
\* without them the session's stored credential, if any, is used.
AuthStored(session, cred) ==
    IF cred # NoCred THEN AuthSetter(cred) ELSE session.auth

AuthSentStoredFirst(session, cred) ==
    IF session.auth.type \in DOMAIN AuthKindOfType
    THEN AuthGetter(session.auth) ELSE cred

AuthSent(session, cred) ==
    IF cred # NoCred THEN cred ELSE AuthGetter(session.auth)

AuthRaises(session, cred) ==
    IF cred # NoCred THEN AuthSetterRaises(cred)
    ELSE AuthGetterRaises(session.auth)

ShouldSaveAlways(isNew, readOnly) == TRUE

ShouldSaveUnlessReadOnly(isNew, readOnly) == ~readOnly

\* Line 59: existing sessions with read_only=True don't get updated.
ShouldSave(isNew, readOnly) == isNew \/ ~readOnly

ReraiseWrapped(e) == "SessionError"

\* Lines 55-56: the exception of the client is raised again as it is.
Reraise(e) == e

Raise(call, e) == [call EXCEPT !.pc = "done", !.exc = e]

\* Lines 31-54, up to the call of the HTTP client.
GetResponseBegin(p, name, headers, netloc, cred, readOnly) ==
    /\ proc[p].pc \in {"idle", "done"}
    /\ LET host == ResolveHost(headers, netloc)
           call == [IdleProc EXCEPT !.op = "get_response", !.host = host,
                       !.name = name, !.readOnly = readOnly,
                       !.reqHeaders = headers, !.reqAuth = cred, !.pre = fs,
                       !.preSaved = savedUnder]
       IN  IF ~HostNameValid(host) \/ ~SessionNameValid(name)
           THEN /\ proc' = [proc EXCEPT ![p] = Raise(call, "AssertionError")]
                /\ UNCHANGED fs
           ELSE
             LET loaded == SessionLoad(fs, host, name)
                 merged == DictUpdate(loaded.headers, headers)
                 began == [call EXCEPT !.isNew = ~FileExists(fs, host, name),
                               !.session = [loaded EXCEPT !.headers = merged]]
                 opened == [began EXCEPT !.loaded = loaded]
             IN  /\ fs' = HostPath(fs, host)
                 /\ IF AuthRaises(loaded, cred)
                    THEN proc' = [proc EXCEPT ![p] =
                             Raise(opened, "KeyError")]
                    ELSE IF CookiesGetterRaises(loaded.cookies)
                    THEN proc' = [proc EXCEPT ![p] =
                             Raise([opened EXCEPT !.session.auth =
                                       AuthStored(loaded, cred)],
                                   "KeyError")]
                    ELSE proc' = [proc EXCEPT ![p] =
                             [opened EXCEPT
                                !.pc = "request",
                                !.session.auth = AuthStored(loaded, cred),
                                !.session.cookies =
                                    CookiesAfterGetter(loaded.cookies),
                                !.sentHeaders = merged,
                                !.sentAuth = AuthSent(loaded, cred),
                                !.sentCookies = CookiesGetter(loaded.cookies),
                                !.calls = 1]]
    /\ Track(p)

\* Lines 57-62: the client returned a response; jar is rsession.cookies.
GetResponseSuccess(p, jar) ==
    /\ proc[p].pc = "request"
    /\ IF ShouldSave(proc[p].isNew, proc[p].readOnly)
       THEN \E cookies \in CookiesSetter(jar) :
              LET data == [proc[p].session EXCEPT !.cookies = cookies]
              IN  /\ fs' = SessionSave(fs, proc[p].host, proc[p].name, data)
                  /\ proc' = [proc EXCEPT ![p].pc = "done", ![p].jar = jar,
                                 ![p].session = data, ![p].saved = TRUE]
       ELSE /\ proc' = [proc EXCEPT ![p].pc = "done", ![p].jar = jar]
            /\ UNCHANGED fs
    /\ Track(p)

\* Lines 55-56: the client raised e.
GetResponseFailure(p, e) ==
    /\ proc[p].pc = "request"
    /\ proc' = [proc EXCEPT ![p].pc = "done", ![p].raised = e,
                   ![p].exc = Reraise(e)]
    /\ UNCHANGED fs
    /\ Track(p)

(***************************************************************************)
(* Session management commands.  NoneName is Python's None given for a     *)
(* name; <<>> is the empty string.  Both are falsy.                        *)
(***************************************************************************)
NoneName == <<"None">>

Falsy(name) == name \in {<<>>, NoneName}

Command(op, hostname, name) ==
    [IdleProc EXCEPT !.op = op, !.host = hostname, !.name = name,
        !.pre = fs, !.preSaved = savedUnder, !.pc = "done"]

\* The lines command_session_list prints for one host: the host's name with
\* each of its session names.
HostLines(f, host) ==
    [i \in 1..Len(HostIter(f, host)) |-> <<host, HostIter(f, host)[i]>>]

RECURSIVE AllLines(_, _)
AllLines(f, hosts) ==
    IF hosts = <<>> THEN <<>>
    ELSE HostLines(f, Head(hosts)) \o AllLines(f, Tail(hosts))

\* The store after each host of the sequence was iterated (Host.path creates
\* the directory of a host that has none).
RECURSIVE PathAll(_, _)
PathAll(f, hosts) ==
    IF hosts = <<>> THEN f
    ELSE PathAll(HostPath(f, Head(hosts)), Tail(hosts))

\* Session(host, name) of Host.__iter__ and Host(real_name) of Host.all
\* validate the names they are given.
IterRaises(f, host) ==
    \E i \in 1..Len(HostIter(f, host)) :
        ~SessionNameValid(HostIter(f, host)[i])

\* command_session_list(hostname)
CmdList(p, hostname) ==
    /\ proc[p].pc \in {"idle", "done"}
    /\ LET call == Command("list", hostname, <<>>)
           hosts == HostAll(fs)
       IN  IF ~Falsy(hostname)
           THEN IF ~HostNameValid(hostname)
                THEN /\ proc' = [proc EXCEPT ![p] =
                                    Raise(call, "AssertionError")]
                     /\ UNCHANGED fs
                ELSE /\ fs' = HostPath(fs, hostname)
                     /\ proc' = [proc EXCEPT ![p] =
                            IF IterRaises(fs, hostname)
                            THEN Raise(call, "AssertionError")
                            ELSE [call EXCEPT !.out = HostLines(fs, hostname)]]
           ELSE IF \E i \in 1..Len(hosts) :
                      ~HostNameValid(hosts[i]) \/ IterRaises(fs, hosts[i])
                THEN /\ proc' = [proc EXCEPT ![p] =
                                    Raise(call, "AssertionError")]
                     /\ fs' = PathAll(fs, hosts)
                ELSE /\ fs' = PathAll(fs, hosts)
                     /\ proc' = [proc EXCEPT ![p] =
                                    [call EXCEPT !.out = AllLines(fs, hosts)]]
    /\ Track(p)

\* command_session_show(hostname, session_name)
CmdShow(p, hostname, name) ==
    /\ proc[p].pc \in {"idle", "done"}
    /\ LET call == Command("show", hostname, name)
       IN  IF ~HostNameValid(hostname) \/ ~SessionNameValid(name)
           THEN /\ proc' = [proc EXCEPT ![p] = Raise(call, "AssertionError")]
                /\ UNCHANGED fs
           ELSE /\ fs' = HostPath(fs, hostname)
                /\ proc' = [proc EXCEPT ![p] =
                       IF ~FileExists(fs, hostname, name)
                       THEN Raise(call, "SystemExit")
                       ELSE [call EXCEPT !.out = <<<<hostname, name>>>>,
                                !.session = FileContent(fs, hostname, name)]]
    /\ Track(p)

\* command_session_delete(hostname, session_name), lines 226-230: with a
\* name nothing is done; without one the host is deleted and Session(host,
\* session_name) then fails on the missing name (TypeError of re.match for
\* None, AssertionError for '').
CmdDelete(p, hostname, name) ==
    /\ proc[p].pc \in {"idle", "done"}
    /\ LET call == Command("delete", hostname, name)
       IN  IF ~HostNameValid(hostname)
           THEN /\ proc' = [proc EXCEPT ![p] = Raise(call, "AssertionError")]
                /\ UNCHANGED fs
           ELSE IF Falsy(name)
           THEN /\ fs' = HostDelete(fs, hostname)
                /\ proc' = [proc EXCEPT ![p] =
                       Raise(call, IF name = NoneName THEN "TypeError"
                                   ELSE "AssertionError")]
           ELSE /\ proc' = [proc EXCEPT ![p] = call]
                /\ UNCHANGED fs
    /\ Track(p)

StoreAtEditorSavedAnew(f, hostname, name) ==
    SessionSave(f, hostname, name, SessionDefaults)

\* Lines 241-243: the store when the editor is started; a new session was
\* saved, with the content of its construction.
StoreAtEditor(f, hostname, name) ==
    IF ~FileExists(f, hostname, name)
    THEN SessionSave(f, hostname, name, SessionDefaults)
    ELSE HostPath(f, hostname)

\* command_session_edit(hostname, session_name): editor is os.environ's
\* EDITOR (<<>> when unset); edit is what the editor does to the file: it
\* keeps it (edit.keep) or writes the record edit.data.
CmdEdit(p, hostname, name, editor, edit) ==
    /\ proc[p].pc \in {"idle", "done"}
    /\ LET call == [Command("edit", hostname, name) EXCEPT
                       !.editor = editor]
           isNew == ~FileExists(fs, hostname, name)
           atEditor == StoreAtEditor(fs, hostname, name)
       IN  IF editor = <<>>
           THEN /\ proc' = [proc EXCEPT ![p] = Raise(call, "SystemExit")]
                /\ UNCHANGED fs
           ELSE IF ~HostNameValid(hostname) \/ ~SessionNameValid(name)
           THEN /\ proc' = [proc EXCEPT ![p] = Raise(call, "AssertionError")]
                /\ UNCHANGED fs
           ELSE /\ fs' = IF edit.keep THEN atEditor
                         ELSE SessionSave(atEditor, hostname, name,
                                          edit.data)
                /\ proc' = [proc EXCEPT ![p] =
                               [call EXCEPT !.isNew = isNew, !.calls = 1,
                                   !.atEditor = atEditor,
                                   !.saved = isNew \/ ~edit.keep]]
    /\ Track(p)

(***************************************************************************)
(* The Session object used directly: constructed and loaded, its cookies   *)
(* and auth views assigned and read, and saved.                            *)
(***************************************************************************)
\* session = Session(Host(hostname), name); session.load()
SessionOpen(p, hostname, name) ==
    /\ proc[p].pc \in {"idle", "done", "open"}
    /\ LET call == [Command("open", hostname, name) EXCEPT !.pc = "open"]
           loaded == SessionLoad(fs, hostname, name)
       IN  IF ~HostNameValid(hostname) \/ ~SessionNameValid(name)
           THEN /\ proc' = [proc EXCEPT ![p] = Raise(call, "AssertionError")]
                /\ UNCHANGED fs
           ELSE /\ fs' = HostPath(fs, hostname)
                /\ proc' = [proc EXCEPT ![p] =
                       [call EXCEPT
                           !.isNew = ~FileExists(fs, hostname, name),
                           !.session = loaded, !.loaded = loaded]]
    /\ Track(p)

\* The object after one use of a view: what was read or raised before is
\* forgotten; jar and reqAuth stay the jar and the credential last given to
\* the setters.
Used(c, op) ==
    [c EXCEPT !.op = op, !.exc = None, !.sentCookies = {},
        !.sentAuth = NoCred, !.saved = FALSE,
        !.pre = fs, !.preSaved = savedUnder]

\* session.cookies = jar
CookiesSet(p, jar) ==
    /\ proc[p].pc = "open"
    /\ \E cookies \in CookiesSetter(jar) :
          proc' = [proc EXCEPT ![p] =
                      [Used(proc[p], "cookies.set") EXCEPT
                          !.jar = jar, !.session.cookies = cookies,
                          !.loaded.cookies = cookies]]
    /\ UNCHANGED fs
    /\ Track(p)

\* session.cookies
CookiesGet(p) ==
    /\ proc[p].pc = "open"
    /\ LET cookies == proc[p].session.cookies
       IN  proc' = [proc EXCEPT ![p] =
               IF CookiesGetterRaises(cookies)
               THEN [Used(proc[p], "cookies.get") EXCEPT !.exc = "KeyError"]
               ELSE [Used(proc[p], "cookies.get") EXCEPT
                        !.sentCookies = CookiesGetter(cookies),
                        !.session.cookies = CookiesAfterGetter(cookies)]]
    /\ UNCHANGED fs
    /\ Track(p)

\* session.auth = cred
AuthSet(p, cred) ==
    /\ proc[p].pc = "open"
    /\ proc' = [proc EXCEPT ![p] =
           IF AuthSetterRaises(cred)
           THEN [Used(proc[p], "auth.set") EXCEPT
                    !.reqAuth = cred, !.exc = "KeyError"]
           ELSE [Used(proc[p], "auth.set") EXCEPT
                    !.reqAuth = cred,
                    !.session.auth = AuthSetter(cred),
                    !.loaded.auth = AuthSetter(cred)]]
    /\ UNCHANGED fs
    /\ Track(p)

\* session.auth
AuthGet(p) ==
    /\ proc[p].pc = "open"
    /\ LET auth == proc[p].session.auth
       IN  proc' = [proc EXCEPT ![p] =
               IF AuthGetterRaises(auth)
               THEN [Used(proc[p], "auth.get") EXCEPT !.exc = "KeyError"]
               ELSE [Used(proc[p], "auth.get") EXCEPT
                        !.sentAuth = AuthGetter(auth)]]
    /\ UNCHANGED fs
    /\ Track(p)

\* session.save()
SessionSaveCall(p) ==
    /\ proc[p].pc = "open"
    /\ fs' = SessionSave(fs, proc[p].host, proc[p].name, proc[p].session)
    /\ proc' = [proc EXCEPT ![p] =
                   [Used(proc[p], "save") EXCEPT !.saved = TRUE]]
    /\ Track(p)

(***************************************************************************)
(* Inputs.                                                                 *)
(***************************************************************************)
\* All names of 1..n characters of the alphabet.
RECURSIVE NamesOfLen(_)
NamesOfLen(n) ==
    IF n = 0 THEN {<<>>}
    ELSE {Append(x, c) : x \in NamesOfLen(n - 1), c \in Alphabet}

RECURSIVE NamesUpTo(_)
NamesUpTo(n) == IF n = 0 THEN {} ELSE NamesOfLen(n) \cup NamesUpTo(n - 1)

\* '.' and '..' are left out: they name the sessions root and its parent,
\* not an entry of the root.
AllNames == NamesUpTo(MaxNameLen) \ {<<".">>, <<".", ".">>}

Credentials ==
    {[kind |-> "HTTPBasicAuth", username |-> "u", password |-> "p"],
     [kind |-> "HTTPDigestAuth", username |-> "v", password |-> "q"]}

\* A credential of another class: HTTPProxyAuth, a subclass of HTTPBasicAuth.
OtherCredential ==
    [kind |-> "HTTPProxyAuth", username |-> "w", password |-> "r"]

\* Cookies the HTTP client may hold: a session cookie, a cookie of the same
\* name under another domain, and a cookie that has expired.
CookieSid ==
    [name |-> "sid", value |-> "x", domain |-> "b", path |-> "/",
     expires |-> None]

CookieSidOther ==
    [name |-> "sid", value |-> "y", domain |-> "c", path |-> "/",
     expires |-> "future"]

CookieExpired ==
    [name |-> "tok", value |-> "z", domain |-> "b", path |-> "/",
     expires |-> "past"]

CookieUniverse == {CookieSid, CookieSidOther, CookieExpired}

\* A jar holds at most one cookie per (domain, path, name).
Jars(universe) ==
    {jar \in SUBSET universe :
        /\ Cardinality(jar) <= MaxJar
        /\ \A c, d \in jar :
              (c.domain = d.domain /\ c.path = d.path /\ c.name = d.name)
                  => c = d}

TransportErrors == {"ConnectionError", "Timeout"}

Keep == [keep |-> TRUE, data |-> SessionDefaults]

\* The editor writes a record whose auth type is the empty string, or one
\* whose auth type is a scheme the getter does not know.
WriteEmptyType ==
    [keep |-> FALSE, data |-> [SessionDefaults EXCEPT !.auth.type = ""]]

WriteUnknownType ==
    [keep |-> FALSE,
     data |-> [SessionDefaults EXCEPT
                  !.auth = [type |-> "ntlm", username |-> "u",
                            password |-> "p"]]]

\* The requests and commands of the main specification: one host, one
\* session; headers that add, override and leave a stored key; credentials
\* of both kinds; jars with a fresh cookie, a cookie of the same name under
\* another domain and an expired cookie.
MainInputs ==
    [names |-> {<<"s">>},
     netlocs |-> {<<"u", "@", "b">>, <<"/">>},
     headers |-> {EmptyMap,
                  [k \in {"A"} |-> <<"2">>],
                  [k \in {"A", "B"} |-> <<"1">>]},
     creds |-> Credentials \cup {NoCred},
     jars |-> Jars(CookieUniverse),
     hosts |-> {<<"b">>, NoneName},
     cmdNames |-> {<<"s">>, NoneName},
     editors |-> {<<>>, <<"v", "i">>},
     edits |-> {Keep, WriteEmptyType, WriteUnknownType}]

\* The operations of one process over the inputs I.
Step(p, I) ==
    \/ \E name \in I.names, headers \in I.headers, netloc \in I.netlocs,
          cred \in I.creds, readOnly \in BOOLEAN :
          GetResponseBegin(p, name, headers, netloc, cred, readOnly)
    \/ \E jar \in I.jars : GetResponseSuccess(p, jar)
    \/ \E e \in TransportErrors : GetResponseFailure(p, e)
    \/ \E hostname \in I.hosts : CmdList(p, hostname)
    \/ \E hostname \in I.hosts \ {NoneName}, name \in I.cmdNames \ {NoneName} :
          CmdShow(p, hostname, name)
    \/ \E hostname \in I.hosts \ {NoneName}, name \in I.cmdNames :
          CmdDelete(p, hostname, name)
    \/ \E hostname \in I.hosts \ {NoneName}, name \in I.cmdNames \ {NoneName},
          editor \in I.editors, edit \in I.edits :
          CmdEdit(p, hostname, name, editor, edit)

\* One invocation of the tool at a time.
Next == \E p \in {1} : Step(p, MainInputs)

Spec == Init /\ [][Next]_vars

(***************************************************************************)
(* The store specification: several hosts, two of which share a directory, *)
(* several sessions, valid and invalid names; one record content per       *)
(* request shape.                                                          *)
(***************************************************************************)
StoreInputs ==
    [names |-> {<<"s">>, <<"t">>, <<"s", "/">>},
     netlocs |-> {<<"a", "_", "1">>, <<"b">>, <<"b", "/">>},
     headers |-> {EmptyMap, [k \in {"Host"} |-> <<"a", ":", "1">>]},
     creds |-> {NoCred},
     jars |-> {{}},
     hosts |-> {<<"a", "_", "1">>, <<"a", ":", "1">>, <<"b">>, <<"b", "/">>,
                NoneName},
     cmdNames |-> {<<"s">>, <<"t">>, <<"s", "/">>, <<>>, NoneName},
     editors |-> {<<>>, <<"v", "i">>},
     edits |-> {Keep}]

NextStore == \E p \in {1} : Step(p, StoreInputs)

SpecStore == Init /\ [][NextStore]_vars

(***************************************************************************)
(* The name specification: every name of up to MaxNameLen characters is    *)
(* given to Host, whose directory is then enumerated by Host.all.          *)
(***************************************************************************)
RoomFor(hostname) ==
    \/ Falsy(hostname)
    \/ ~HostNameValid(hostname)
    \/ HostDir(hostname) \in DOMAIN fs
    \/ Cardinality(DOMAIN fs) < MaxDirs

NextHosts ==
    \E p \in {1} :
        \/ \E hostname \in AllNames \cup {NoneName} :
              RoomFor(hostname) /\ CmdList(p, hostname)
        \/ \E hostname \in {h \in AllNames : HostDir(h) \in DOMAIN fs} :
              CmdDelete(p, hostname, NoneName)

SpecHosts == Init /\ [][NextHosts]_vars

(***************************************************************************)
(* The listing specification: one host whose sessions are saved under      *)
(* names with and without a leading '.', listed, and deleted with the      *)
(* host.                                                                   *)
(***************************************************************************)
ListInputs ==
    [names |-> {<<"s">>, <<"t">>, <<".", "t">>},
     netlocs |-> {<<"b">>},
     headers |-> {EmptyMap},
     creds |-> {NoCred},
     jars |-> {{}},
     hosts |-> {<<"b">>, NoneName},
     cmdNames |-> {<<"s">>, <<".", "t">>, NoneName},
     editors |-> {<<"v", "i">>},
     edits |-> {Keep}]

NextList == \E p \in {1} : Step(p, ListInputs)

SpecList == Init /\ [][NextList]_vars

(***************************************************************************)
(* The concurrent specification: two processes run get_response on the     *)
(* same session of the same host; their steps interleave at the HTTP       *)
(* request, between the load and the save.                                 *)
(***************************************************************************)
\* The requests of the two processes: one that sets a header and carries
\* credentials, one that overrides that header and adds another, and the
\* latter with read_only=True.
ConcurrentRequests ==
    {[headers |-> [k \in {"A"} |-> <<"2">>],
      cred |-> [kind |-> "HTTPBasicAuth", username |-> "u", password |-> "p"],
      readOnly |-> FALSE],
     [headers |-> [k \in {"A", "B"} |-> <<"1">>], cred |-> NoCred,
      readOnly |-> FALSE],
     [headers |-> [k \in {"A", "B"} |-> <<"1">>], cred |-> NoCred,
      readOnly |-> TRUE]}

NextConcurrent ==
    \E p \in Procs :
        \/ \E r \in ConcurrentRequests :
              GetResponseBegin(p, <<"s">>, r.headers, <<"b">>, r.cred,
                               r.readOnly)
        \/ \E jar \in {{CookieSid}, {CookieSidOther}} :
              GetResponseSuccess(p, jar)
        \/ \E e \in TransportErrors : GetResponseFailure(p, e)

SpecConcurrent == Init /\ [][NextConcurrent]_vars

(***************************************************************************)
(* The view specification: one Session object, its views assigned, read    *)
(* and saved in any order.                                                 *)
(***************************************************************************)
NextViews ==
    \E p \in {1} :
        \/ SessionOpen(p, <<"b">>, <<"s">>)
        \/ \E jar \in Jars(CookieUniverse) : CookiesSet(p, jar)
        \/ CookiesGet(p)
        \/ \E cred \in Credentials \cup {OtherCredential} : AuthSet(p, cred)
        \/ AuthGet(p)
        \/ SessionSaveCall(p)

SpecViews == Init /\ [][NextViews]_vars

(***************************************************************************)
(* Claims.                                                                 *)
(***************************************************************************)
\* A call of get_response that returned a response.
Succeeded(c) ==
    c.pc = "done" /\ c.op = "get_response" /\ c.exc = None /\ c.calls = 1

\* A call of get_response that reached the HTTP client.
Executed(c) == c.op = "get_response" /\ c.calls = 1

\* The session file of the call is in the same state in the stores f and g.
SameFile(f, g, c) ==
    /\ FileExists(f, c.host, c.name) <=> FileExists(g, c.host, c.name)
    /\ FileExists(f, c.host, c.name) =>
          FileContent(f, c.host, c.name) = FileContent(g, c.host, c.name)

\* The session record the call loaded: the file's, or the defaults.
StoredBefore(c) == SessionLoad(c.pre, c.host, c.name)

\* C1: a successful get_response with read_only=True on a session whose file
\* existed when it was called leaves the file with the content it had.
C1_ReadOnlyLeavesFile ==
    \A p \in Procs :
        (/\ Succeeded(proc[p])
         /\ proc[p].readOnly
         /\ FileExists(proc[p].pre, proc[p].host, proc[p].name))
        => /\ SameFile(proc[p].pre, fs, proc[p])
           /\ fs = proc[p].pre

\* C1's case: the request carried headers and credentials the file does not
\* hold and the response a cookie, and the call returned.
C1_Witness ==
    /\ Succeeded(proc[1])
    /\ proc[1].readOnly
    /\ FileExists(proc[1].pre, proc[1].host, proc[1].name)
    /\ proc[1].jar # {}
    /\ proc[1].reqAuth # NoCred
    /\ proc[1].session.auth # FileContent(fs, proc[1].host, proc[1].name).auth
    /\ proc[1].session.headers #
           FileContent(fs, proc[1].host, proc[1].name).headers
    /\ FileContent(fs, proc[1].host, proc[1].name).cookies
           \notin CookiesSetter(proc[1].jar)

\* C2: a successful get_response on a session without a file, read-only or
\* not, or on an existing session with read_only=False, ends with the file
\* on disk holding the entries the cookie setter makes of the response jar,
\* one per cookie name, each the attributes of a cookie of that name.
C2_SavedCookies ==
    \A p \in Procs :
        (/\ Succeeded(proc[p])
         /\ \/ ~FileExists(proc[p].pre, proc[p].host, proc[p].name)
            \/ ~proc[p].readOnly)
        => /\ FileExists(fs, proc[p].host, proc[p].name)
           /\ LET stored == FileContent(fs, proc[p].host, proc[p].name).cookies
              IN  /\ DOMAIN stored = {c.name : c \in proc[p].jar}
                  /\ \A n \in DOMAIN stored :
                        \E c \in proc[p].jar :
                            /\ c.name = n
                            /\ stored[n] = [value |-> c.value,
                                            domain |-> c.domain,
                                            path |-> c.path,
                                            expires |-> c.expires]

\* C2's case: a new session, read_only=True, a response with a cookie.
C2_Witness ==
    /\ Succeeded(proc[1])
    /\ proc[1].readOnly
    /\ ~FileExists(proc[1].pre, proc[1].host, proc[1].name)
    /\ proc[1].jar # {}
    /\ FileExists(fs, proc[1].host, proc[1].name)

\* C3: the headers given to the HTTP client are the stored headers
\* overridden by the request's: each key of the request with the request's
\* value, each other stored key with the stored value, and no other key.
C3_MergedHeaders ==
    \A p \in Procs :
        Executed(proc[p]) =>
            LET S == StoredBefore(proc[p]).headers
                R == proc[p].reqHeaders
                sent == proc[p].sentHeaders
            IN  /\ DOMAIN sent = DOMAIN S \cup DOMAIN R
                /\ \A k \in DOMAIN R : sent[k] = R[k]
                /\ \A k \in DOMAIN S \ DOMAIN R : sent[k] = S[k]

\* C3's case: the request overrides one stored key and leaves another.
C3_Witness ==
    /\ Executed(proc[1])
    /\ \E k \in DOMAIN proc[1].reqHeaders \cap
                DOMAIN StoredBefore(proc[1]).headers :
          proc[1].reqHeaders[k] # StoredBefore(proc[1]).headers[k]
    /\ DOMAIN StoredBefore(proc[1]).headers \ DOMAIN proc[1].reqHeaders # {}

\* The stored type of a credential class.
TypeNamed(kind) ==
    CASE kind = "HTTPBasicAuth" -> "basic"
      [] kind = "HTTPDigestAuth" -> "digest"
      [] OTHER -> "unsupported"

\* C4: explicit credentials are the ones the request is executed with, and
\* after a successful run that persists the session the file's auth record
\* has their type, username and password.
C4_ExplicitCredentials ==
    \A p \in Procs :
        (Executed(proc[p]) /\ proc[p].reqAuth # NoCred) =>
            /\ proc[p].sentAuth = proc[p].reqAuth
            /\ (/\ Succeeded(proc[p])
                /\ \/ ~FileExists(proc[p].pre, proc[p].host, proc[p].name)
                   \/ ~proc[p].readOnly)
               => /\ FileExists(fs, proc[p].host, proc[p].name)
                  /\ FileContent(fs, proc[p].host, proc[p].name).auth =
                        [type |-> TypeNamed(proc[p].reqAuth.kind),
                         username |-> proc[p].reqAuth.username,
                         password |-> proc[p].reqAuth.password]

\* C4's case: the file held another credential than the request's, and the
\* run was persisted.
C4_Witness ==
    /\ Succeeded(proc[1])
    /\ proc[1].reqAuth # NoCred
    /\ ~proc[1].readOnly
    /\ FileExists(proc[1].pre, proc[1].host, proc[1].name)
    /\ StoredBefore(proc[1]).auth.type \in {"basic", "digest"}
    /\ StoredBefore(proc[1]).auth.username # proc[1].reqAuth.username

\* C5: without explicit credentials a stored basic or digest record gives
\* the request a credential of that type with the stored username and
\* password, and a stored null type gives it none.
C5_StoredCredentials ==
    \A p \in Procs :
        (Executed(proc[p]) /\ proc[p].reqAuth = NoCred) =>
            LET auth == StoredBefore(proc[p]).auth
            IN  /\ auth.type = "basic" =>
                      proc[p].sentAuth = [kind |-> "HTTPBasicAuth",
                                          username |-> auth.username,
                                          password |-> auth.password]
                /\ auth.type = "digest" =>
                      proc[p].sentAuth = [kind |-> "HTTPDigestAuth",
                                          username |-> auth.username,
                                          password |-> auth.password]
                /\ auth.type = None => proc[p].sentAuth = NoCred

\* C5's case: a stored digest record and a request without credentials.
C5_Witness ==
    /\ Executed(proc[1])
    /\ proc[1].reqAuth = NoCred
    /\ StoredBefore(proc[1]).auth.type = "digest"
    /\ proc[1].sentAuth.kind = "HTTPDigestAuth"

\* C6: a transport exception of the HTTP client reaches the caller as it was
\* raised, after one invocation of the client, and leaves the session file
\* as it was: absent, or with its content.
C6_TransportError ==
    \A p \in Procs :
        (/\ proc[p].pc = "done"
         /\ proc[p].op = "get_response"
         /\ proc[p].raised # None)
        => /\ proc[p].exc = proc[p].raised
           /\ proc[p].calls = 1
           /\ SameFile(proc[p].pre, fs, proc[p])

\* C6's case: the client raised for a new session with read_only=False and
\* a request that carried credentials.
C6_Witness ==
    /\ proc[1].pc = "done"
    /\ proc[1].op = "get_response"
    /\ proc[1].raised \in TransportErrors
    /\ ~proc[1].readOnly
    /\ proc[1].reqAuth # NoCred
    /\ ~FileExists(fs, proc[1].host, proc[1].name)

\* A command that ran to its end, whatever it raised.
Ran(c, op) == c.pc = "done" /\ c.op = op

\* The session names of the store specification's inputs.
GivenNames == {n \in StoreInputs.cmdNames : ~Falsy(n)}

\* The valid host names of the store specification's inputs.
GivenHosts == {h \in StoreInputs.hosts : ~Falsy(h) /\ HostNameValid(h)}

\* The session of host h named n is in the same state in the stores f and g.
SameSession(f, g, h, n) ==
    /\ FileExists(f, h, n) <=> FileExists(g, h, n)
    /\ FileExists(f, h, n) => FileContent(f, h, n) = FileContent(g, h, n)

\* C7: command_session_delete with a host name and a session name removes
\* the file of that session and leaves the host's other session files as
\* they were; without a session name it removes the host's directory.
C7_DeleteRemoves ==
    \A p \in Procs :
        (Ran(proc[p], "delete") /\ HostNameValid(proc[p].host)) =>
            IF Falsy(proc[p].name)
            THEN HostDir(proc[p].host) \notin DOMAIN fs
            ELSE /\ ~FileExists(fs, proc[p].host, proc[p].name)
                 /\ \A n \in GivenNames \ {proc[p].name} :
                       SameSession(proc[p].pre, fs, proc[p].host, n)

\* When the call c started, the session n of host h had a file, written by a
\* call for the host name h.
StoredUnder(c, h, n) ==
    /\ FileExists(c.pre, h, n)
    /\ c.preSaved[<<HostDir(h), FileName(n)>>] = h

\* C8: after Host.delete (command_session_delete without a session name)
\* iterating the host yields no session, and the sessions stored under the
\* other hosts are as they were.
C8_HostDeleteOnlyThatHost ==
    \A p \in Procs :
        (/\ Ran(proc[p], "delete")
         /\ HostNameValid(proc[p].host)
         /\ Falsy(proc[p].name))
        => /\ HostIter(fs, proc[p].host) = <<>>
           /\ \A h \in GivenHosts \ {proc[p].host} :
                 \A n \in GivenNames :
                     StoredUnder(proc[p], h, n) =>
                         SameSession(proc[p].pre, fs, h, n)

InvalidNameGiven(c) ==
    \/ ~Falsy(c.host) /\ ~HostNameValid(c.host)
    \/ /\ c.op \in {"get_response", "show", "delete", "edit"}
       /\ c.name # NoneName
       /\ ~SessionNameValid(c.name)

\* C10: an operation given a host name or a session name that fails its
\* pattern fails with a validation error and leaves the store as it was.
\* (command_session_edit without an editor exits before it looks at the
\* names; that exit is not held against the claim here.)
C10_InvalidNameRejected ==
    \A p \in Procs :
        (/\ proc[p].pc = "done"
         /\ proc[p].op # "none"
         /\ InvalidNameGiven(proc[p]))
        => /\ \/ proc[p].exc = "AssertionError"
              \/ proc[p].op = "edit" /\ proc[p].exc = "SystemExit"
           /\ fs = proc[p].pre
\* The call was given a valid host name and a valid session name.
ValidNames(c) == HostNameValid(c.host) /\ SessionNameValid(c.name)

\* C11: a session of valid names that has no file is new and, constructed
\* and loaded, holds exactly the three keys headers, cookies and auth:
\* headers and cookies empty, the auth record's type, username and password
\* null.  Seen where get_response has loaded the session, and where
\* command_session_edit has saved the newly constructed one for the editor.
C11_NewSessionDefaults ==
    \A p \in Procs :
        /\ (/\ proc[p].op = "get_response"
            /\ ValidNames(proc[p])
            /\ ~FileExists(proc[p].pre, proc[p].host, proc[p].name))
           => /\ proc[p].isNew
              /\ DOMAIN proc[p].loaded = {"headers", "cookies", "auth"}
              /\ DOMAIN proc[p].loaded.headers = {}
              /\ DOMAIN proc[p].loaded.cookies = {}
              /\ DOMAIN proc[p].loaded.auth =
                     {"type", "username", "password"}
              /\ \A k \in DOMAIN proc[p].loaded.auth :
                     proc[p].loaded.auth[k] = None
        /\ (/\ proc[p].op = "edit"
            /\ proc[p].calls = 1
            /\ ~FileExists(proc[p].pre, proc[p].host, proc[p].name))
           => /\ proc[p].isNew
              /\ FileExists(proc[p].atEditor, proc[p].host, proc[p].name)
              /\ LET new == FileContent(proc[p].atEditor, proc[p].host,
                                        proc[p].name)
                 IN  /\ DOMAIN new = {"headers", "cookies", "auth"}
                     /\ DOMAIN new.headers = {} /\ DOMAIN new.cookies = {}
                     /\ \A k \in DOMAIN new.auth : new.auth[k] = None

\* C11's case: get_response on a session without a file, with request
\* headers and credentials, has loaded the session and reached the client.
C11_Witness ==
    /\ Executed(proc[1])
    /\ ~FileExists(proc[1].pre, proc[1].host, proc[1].name)
    /\ proc[1].isNew
    /\ proc[1].loaded = SessionDefaults
    /\ proc[1].reqHeaders # EmptyMap
    /\ proc[1].reqAuth # NoCred
\* The (name, value) pairs of a jar.
Pairs(jar) == {<<c.name, c.value>> : c \in jar}

\* No two cookies of the jar have the same name.
DistinctNames(jar) == \A c, d \in jar : c.name = d.name => c = d

\* The Session object's cookies were read, without error, and what was read
\* is the mapping that the assignment of the jar c.jar had stored.
ReadBack(c) ==
    /\ c.pc = "open" /\ c.op = "cookies.get" /\ c.exc = None
    /\ c.loaded.cookies \in CookiesSetter(c.jar)

\* C12, as stated: the jar read back after jar J was assigned has the
\* (name, value) pairs of the unexpired cookies of J, whatever J holds.
C12_CookieRoundTrip ==
    \A p \in Procs :
        ReadBack(proc[p]) =>
            Pairs(proc[p].sentCookies) = Pairs(ClearExpired(proc[p].jar))

\* C12, amended: the jar read back holds at most one cookie per name, each
\* with the (name, value) pair of an unexpired cookie of J; when no two
\* cookies of J share a name its pairs are exactly those of the unexpired
\* cookies of J.
C12_CookieRoundTripDistinctNames ==
    \A p \in Procs :
        ReadBack(proc[p]) =>
            /\ DistinctNames(proc[p].sentCookies)
            /\ Pairs(proc[p].sentCookies) \subseteq
                   Pairs(ClearExpired(proc[p].jar))
            /\ DistinctNames(proc[p].jar) =>
                   Pairs(proc[p].sentCookies) =
                       Pairs(ClearExpired(proc[p].jar))

\* C12's case: a jar of two cookies of different names, one of them
\* expired, was assigned and read back.
C12_Witness ==
    /\ ReadBack(proc[1])
    /\ proc[1].jar = {CookieSid, CookieExpired}
    /\ Pairs(proc[1].sentCookies) = {<<"sid", "x">>}
\* The credential classes the auth setter knows.
KnownKinds == {"HTTPBasicAuth", "HTTPDigestAuth"}

\* C13: a basic or digest credential assigned to Session.auth is stored
\* with the type "basic" or "digest" and its username and password, and is
\* read back as a credential of the same class, username and password; the
\* assignment of a credential of another class raises KeyError and leaves
\* the stored auth record as it was.
C13_AuthRoundTrip ==
    \A p \in Procs :
        proc[p].pc = "open" =>
            LET c == proc[p]
            IN  /\ (c.op = "auth.set" /\ c.reqAuth.kind \in KnownKinds)
                   => /\ c.exc = None
                      /\ c.session.auth =
                            [type |-> TypeNamed(c.reqAuth.kind),
                             username |-> c.reqAuth.username,
                             password |-> c.reqAuth.password]
                /\ (c.op = "auth.get" /\ c.reqAuth.kind \in KnownKinds)
                   => /\ c.exc = None
                      /\ c.sentAuth = c.reqAuth
                      /\ c.session.auth.type = TypeNamed(c.reqAuth.kind)
                /\ (c.op = "auth.set" /\ c.reqAuth.kind \notin KnownKinds)
                   => /\ c.exc = "KeyError"
                      /\ c.session.auth = c.loaded.auth

\* C13's case: a credential of another class was assigned to a session
\* that held the record of an assigned digest credential.
C13_Witness ==
    /\ proc[1].pc = "open"
    /\ proc[1].op = "auth.set"
    /\ proc[1].reqAuth = OtherCredential
    /\ proc[1].exc = "KeyError"
    /\ proc[1].session.auth =
           [type |-> "digest", username |-> "v", password |-> "q"]
\* The call of get_response found a session file whose auth type is neither
\* null, empty, "basic" nor "digest".
UnknownTypeStored(c) ==
    /\ c.op = "get_response"
    /\ ValidNames(c)
    /\ FileExists(c.pre, c.host, c.name)
    /\ StoredBefore(c).auth.type \notin {None, "", "basic", "digest"}

\* The call failed on the stored auth type: KeyError, the HTTP client not
\* invoked, the store as it was.
FailedOnAuthType(c) ==
    /\ c.pc = "done"
    /\ c.exc = "KeyError"
    /\ c.calls = 0
    /\ c.raised = None
    /\ ~c.saved

\* The stored auth record as the getter reads it in a call of get_response:
\* the request gave no credentials, so line 49 reads session.auth.
GetterRead(c) == c.op = "get_response" /\ ValidNames(c) /\ c.reqAuth = NoCred

\* C14, as stated: get_response on a session file with an unknown auth type
\* fails before the HTTP client is invoked and without writing the file,
\* whatever the request carries.
C14_UnknownTypeAlwaysFails ==
    \A p \in Procs :
        UnknownTypeStored(proc[p]) =>
            /\ FailedOnAuthType(proc[p])
            /\ fs = proc[p].pre

\* C14, amended: read by a request without credentials, a null or empty
\* stored type gives no credential and no error, "basic" and "digest" give a
\* credential of that class, and every other type fails the call with
\* KeyError before the HTTP client is invoked, the store as it was; a request
\* with credentials of its own does not read the stored type and reaches the
\* client.
C14_AuthTypeRead ==
    \A p \in Procs :
        LET c == proc[p]
            type == StoredBefore(c).auth.type
        IN  /\ (GetterRead(c) /\ type \in {None, ""})
               => /\ c.calls = 1
                  /\ c.exc \in {None} \cup TransportErrors
                  /\ c.sentAuth = NoCred
            /\ (GetterRead(c) /\ type \in {"basic", "digest"})
               => /\ c.calls = 1
                  /\ c.sentAuth.kind = AuthKindOfType[type]
            /\ (GetterRead(c) /\ UnknownTypeStored(c))
               => /\ FailedOnAuthType(c)
                  /\ fs = c.pre
            /\ (UnknownTypeStored(c) /\ c.reqAuth \in Credentials)
               => /\ c.calls = 1
                  /\ c.sentAuth = c.reqAuth

\* C14's case: a request without credentials failed on the file the editor
\* wrote with the auth type "ntlm".
C14_Witness ==
    /\ GetterRead(proc[1])
    /\ UnknownTypeStored(proc[1])
    /\ StoredBefore(proc[1]).auth.type = "ntlm"
    /\ FailedOnAuthType(proc[1])
    /\ FileContent(fs, proc[1].host, proc[1].name) = WriteUnknownType.data
\* C15: command_session_edit without an editor exits with an error, no
\* editor started and the store as it was; with an editor and valid names
\* the editor is started on a file that exists: the file the session had,
\* with the content it had, or else a file saved with the default content.
C15_EditorOnExistingFile ==
    \A p \in Procs :
        Ran(proc[p], "edit") =>
            LET c == proc[p]
            IN  /\ c.editor = <<>>
                   => /\ c.exc = "SystemExit"
                      /\ c.calls = 0
                      /\ fs = c.pre
                /\ (c.editor # <<>> /\ ValidNames(c))
                   => /\ c.calls = 1
                      /\ FileExists(c.atEditor, c.host, c.name)
                      /\ FileContent(c.atEditor, c.host, c.name) =
                            IF FileExists(c.pre, c.host, c.name)
                            THEN FileContent(c.pre, c.host, c.name)
                            ELSE SessionDefaults
                /\ c.calls = 1 => FileExists(c.atEditor, c.host, c.name)

\* C15's case: the editor was started on a session file that get_response
\* had saved with headers, and the file had these headers then.
C15_Witness ==
    /\ Ran(proc[1], "edit")
    /\ proc[1].calls = 1
    /\ FileExists(proc[1].pre, proc[1].host, proc[1].name)
    /\ FileContent(proc[1].pre, proc[1].host, proc[1].name).headers
           # EmptyMap
    /\ FileContent(proc[1].atEditor, proc[1].host, proc[1].name) =
           FileContent(proc[1].pre, proc[1].host, proc[1].name)
\* The session names of the listing specification's inputs.
ListedNames == ListInputs.names \cup {n \in ListInputs.cmdNames : ~Falsy(n)}

\* The names among S whose session files exist under host h in the store f,
\* in ascending order of their file names.
RECURSIVE ByFileName(_)
ByFileName(S) ==
    IF S = {} THEN <<>>
    ELSE LET m == CHOOSE x \in S :
                      \A y \in S \ {x} : NameLess(FileName(x), FileName(y))
         IN  <<m>> \o ByFileName(S \ {m})

\* C16: iterating a host yields exactly the sessions whose files exist in
\* its directory, each once, in ascending order of file name, whatever the
\* valid session names are.
C16_IterYieldsEverySession ==
    \A p \in Procs :
        (/\ Ran(proc[p], "list")
         /\ ~Falsy(proc[p].host)
         /\ HostNameValid(proc[p].host))
        => LET existing == ByFileName({n \in ListedNames :
                               FileExists(proc[p].pre, proc[p].host, n)})
           IN  /\ proc[p].exc = None
               /\ proc[p].out =
                      [i \in 1..Len(existing) |->
                          <<proc[p].host, existing[i]>>]
\* A call of get_response that returned a response and saved the session.
Persisted(c) == Succeeded(c) /\ c.saved

\* The record a persisting call writes: the headers it loaded overridden
\* by its request's, the request's credentials or else the auth record it
\* loaded, and the cookies of its response.
WrittenBy(c, record) ==
    /\ DOMAIN record = {"headers", "cookies", "auth"}
    /\ DOMAIN record.headers =
           DOMAIN c.loaded.headers \cup DOMAIN c.reqHeaders
    /\ \A k \in DOMAIN record.headers :
           record.headers[k] = IF k \in DOMAIN c.reqHeaders
                               THEN c.reqHeaders[k]
                               ELSE c.loaded.headers[k]
    /\ record.auth = IF c.reqAuth # NoCred
                     THEN [type |-> TypeNamed(c.reqAuth.kind),
                           username |-> c.reqAuth.username,
                           password |-> c.reqAuth.password]
                     ELSE c.loaded.auth
    /\ DOMAIN record.cookies = {k.name : k \in c.jar}
    /\ \A n \in DOMAIN record.cookies :
           \E k \in c.jar :
               /\ k.name = n
               /\ record.cookies[n] =
                      [value |-> k.value, domain |-> k.domain,
                       path |-> k.path, expires |-> k.expires]

\* C17: when two processes have run get_response on the same session and
\* both have saved it, the file holds exactly the record of the process that
\* saved last: what that process loaded, its request and its response, and
\* nothing of the other process that it had not loaded.
C17_LastWriterWins ==
    (Persisted(proc[1]) /\ Persisted(proc[2]))
    => LET last == proc[savedBy[FileOf(proc[1])]]
       IN  /\ FileOf(proc[1]) = FileOf(proc[2])
           /\ FileExists(fs, last.host, last.name)
           /\ WrittenBy(last, FileContent(fs, last.host, last.name))

\* C17's case, the lost update: both processes loaded the session before
\* either saved, process 1 saved first with a header, credentials and a
\* cookie, process 2 saved last, and the file has none of the three.
C17_Witness ==
    /\ Persisted(proc[1]) /\ Persisted(proc[2])
    /\ proc[1].loaded = proc[2].loaded
    /\ ~FileExists(proc[1].pre, <<"b">>, <<"s">>)
    /\ ~FileExists(proc[2].pre, <<"b">>, <<"s">>)
    /\ savedBy[FileOf(proc[1])] = 2
    /\ proc[1].reqHeaders["A"] = <<"2">>
    /\ proc[1].reqAuth.kind = "HTTPBasicAuth"
    /\ proc[1].jar = {CookieSid}
    /\ LET file == FileContent(fs, <<"b">>, <<"s">>)
       IN  /\ file.headers["A"] = <<"1">>
           /\ file.auth.type = None
           /\ file.cookies["sid"].value = "y"
\* C18: reading Session.cookies succeeds and leaves the stored cookies
\* mapping as the load or the last assignment left it, every entry with its
\* value, however often it is read; and save() writes that mapping, whether
\* or not the cookies were read before.
C18_ReadLeavesStoredCookies ==
    \A p \in Procs :
        proc[p].pc = "open" =>
            LET c == proc[p]
            IN  /\ c.op = "cookies.get"
                   => /\ c.exc = None
                      /\ c.session.cookies = c.loaded.cookies
                      /\ \A n \in DOMAIN c.session.cookies :
                            "value" \in DOMAIN c.session.cookies[n]
                /\ c.op = "save"
                   => FileContent(fs, c.host, c.name).cookies =
                          c.loaded.cookies
\* C19: after a successful get_response on a new session, or without
\* read_only, the headers in the file are the headers the request was sent
\* with, the stored headers overridden by the request's; and every header
\* the file held before a request is sent with it, with the stored value
\* unless the request gives its own.
C19_HeadersStored ==
    \A p \in Procs :
        LET c == proc[p]
            S == StoredBefore(c).headers
            R == c.reqHeaders
        IN  /\ (/\ Succeeded(c)
                /\ ~FileExists(c.pre, c.host, c.name) \/ ~c.readOnly)
               => /\ FileExists(fs, c.host, c.name)
                  /\ LET H == FileContent(fs, c.host, c.name).headers
                     IN  /\ H = c.sentHeaders
                         /\ DOMAIN H = DOMAIN S \cup DOMAIN R
                         /\ \A k \in DOMAIN H :
                               H[k] = IF k \in DOMAIN R THEN R[k] ELSE S[k]
            /\ Executed(c)
               => \A k \in DOMAIN S :
                     /\ k \in DOMAIN c.sentHeaders
                     /\ k \notin DOMAIN R => c.sentHeaders[k] = S[k]

\* C19's case: the file held the headers A and B of an earlier request, the
\* request gave A anew, and the file now holds the new A and the old B.
C19_Witness ==
    /\ Succeeded(proc[1])
    /\ ~proc[1].readOnly
    /\ FileExists(proc[1].pre, proc[1].host, proc[1].name)
    /\ StoredBefore(proc[1]).headers = [k \in {"A", "B"} |-> <<"1">>]
    /\ proc[1].reqHeaders = [k \in {"A"} |-> <<"2">>]
    /\ FileContent(fs, proc[1].host, proc[1].name).headers =
           [k \in {"A", "B"} |-> IF k = "A" THEN <<"2">> ELSE <<"1">>]
\* C20: no two distinct valid host names have the same directory, so the
\* record a get_response loads from a file, when it holds headers, was
\* saved by a call for the very host name the request resolved to.
C20_HostsNeverShare ==
    \A p \in Procs :
        LET c == proc[p]
        IN  (/\ c.op = "get_response"
             /\ ValidNames(c)
             /\ FileExists(c.pre, c.host, c.name)
             /\ StoredBefore(c).headers # EmptyMap)
            => c.preSaved[FileOf(c)] = c.host
====
